---- MODULE Spec2Model ----
(***************************************************************************)
(* xrcform: binding of window methods to wx events by naming convention.   *)
(* A model of lib/xrcform.py: MethodNameToEvent (the name parser),         *)
(* AutoBindEvent (the binder) and the __getattr__ child-control lookup of  *)
(* the Xrc window classes.  Strings are sequences of one-character         *)
(* strings, so that split, join, upper, isdigit, int and startswith are    *)
(* computed character by character.                                        *)
(***************************************************************************)
EXTENDS Integers, Sequences, FiniteSets, TLC

VARIABLES
    pc,        \* parser call: "idle" or "returned"
    name,      \* parser call: the name argument
    pfx,       \* parser call: the prefix argument
    toks,      \* parser call: the tokens the name was written from
    result,    \* parser call: what MethodNameToEvent returned or raised
    attrs,     \* window: attribute name -> value, what dir(win)/getattr see
    xrc,       \* window: control names the XRC resource resolves
    phase,     \* window: "created", "bound" or "failed"
    prefix,    \* binder call: the prefix argument
    excludes,  \* binder call: the excludes argument
    win0,      \* binder call: the window's attributes when the call began
    bound,     \* window: the win.Bind calls made, in order
    err,       \* binder call: the exception that left AutoBindEvent
    parsed     \* binder call: the names handed to MethodNameToEvent

vars == <<pc, name, pfx, toks, result, attrs, xrc, phase, prefix, excludes,
          win0, bound, err, parsed>>

parserVars == <<pc, name, pfx, toks, result>>
windowVars == <<attrs, xrc, phase, prefix, excludes, win0, bound, err, parsed>>

-----------------------------------------------------------------------------
(* Bounds *)

\* most tokens in a name handed to the parser
MaxToks == 4
\* most attributes of a window
MaxAttrs == 2

-----------------------------------------------------------------------------
(* Characters and the str methods the code uses *)

LowerCs == <<"a","b","c","d","e","f","g","h","i","j","k","l","m",
             "n","o","p","q","r","s","t","u","v","w","x","y","z">>
UpperCs == <<"A","B","C","D","E","F","G","H","I","J","K","L","M",
             "N","O","P","Q","R","S","T","U","V","W","X","Y","Z">>
DigitCs == <<"0","1","2","3","4","5","6","7","8","9">>

InSeq(s, c) == \E i \in DOMAIN s : s[i] = c
IndexIn(s, c) == CHOOSE i \in DOMAIN s : s[i] = c

\* the character's code, as str comparison (and so sorted()/dir()) orders it
Ord(c) ==
    IF InSeq(DigitCs, c) THEN 47 + IndexIn(DigitCs, c)
    ELSE IF InSeq(UpperCs, c) THEN 64 + IndexIn(UpperCs, c)
    ELSE IF c = "_" THEN 95
    ELSE 96 + IndexIn(LowerCs, c)

UpperChar(c) == IF InSeq(LowerCs, c) THEN UpperCs[IndexIn(LowerCs, c)] ELSE c

RECURSIVE StrUpper(_)
\* s.upper()
StrUpper(s) == IF s = <<>> THEN <<>> ELSE <<UpperChar(Head(s))>> \o StrUpper(Tail(s))

\* s.isdigit(): non-empty and every character a digit
IsDigit(s) == Len(s) > 0 /\ \A i \in DOMAIN s : InSeq(DigitCs, s[i])

RECURSIVE PyInt_DropsZero(_)
\* an int() that skips the digit 0 instead of shifting it in
PyInt_DropsZero(s) ==
    IF s = <<>> THEN 0
    ELSE LET d == IndexIn(DigitCs, s[Len(s)]) - 1
             front == SubSeq(s, 1, Len(s) - 1)
         IN IF d = 0 THEN PyInt_DropsZero(front)
            ELSE 10 * PyInt_DropsZero(front) + d

RECURSIVE PyInt(_)
\* int(s) of a digit string
PyInt(s) ==
    IF s = <<>> THEN 0
    ELSE 10 * PyInt(SubSeq(s, 1, Len(s) - 1)) + (IndexIn(DigitCs, s[Len(s)]) - 1)

RECURSIVE Split(_)
\* s.split('_'): always at least one part; '' gives ['']
Split(s) ==
    IF ~InSeq(s, "_") THEN <<s>>
    ELSE LET i == CHOOSE k \in DOMAIN s :
                      s[k] = "_" /\ \A j \in 1..(k - 1) : s[j] # "_"
         IN <<SubSeq(s, 1, i - 1)>> \o Split(SubSeq(s, i + 1, Len(s)))

RECURSIVE Join(_)
\* "_".join(parts)
Join(parts) ==
    IF parts = <<>> THEN <<>>
    ELSE IF Len(parts) = 1 THEN parts[1]
    ELSE parts[1] \o <<"_">> \o Join(Tail(parts))

\* s.startswith(p)
StartsWith(s, p) == Len(p) <= Len(s) /\ SubSeq(s, 1, Len(p)) = p

RECURSIVE StrLess(_, _)
\* a < b on str
StrLess(a, b) ==
    IF b = <<>> THEN FALSE
    ELSE IF a = <<>> THEN TRUE
    ELSE IF Head(a) # Head(b) THEN Ord(Head(a)) < Ord(Head(b))
    ELSE StrLess(Tail(a), Tail(b))

RECURSIVE SortedNames(_)
\* dir(win): the attribute names in sorted order
SortedNames(S) ==
    IF S = {} THEN <<>>
    ELSE LET m == CHOOSE x \in S : \A y \in S \ {x} : StrLess(x, y)
         IN <<m>> \o SortedNames(S \ {m})

-----------------------------------------------------------------------------
(* Tokens the names of the model are written from *)

T_on      == <<"o","n">>
T_online  == <<"o","n","l","i","n","e">>
T_Button1 == <<"B","u","t","t","o","n","1">>
T_Button  == <<"B","u","t","t","o","n">>
T_Missing == <<"M","i","s","s","i","n","g">>
T_empty   == <<>>
T_1001    == <<"1","0","0","1">>
T_1010    == <<"1","0","1","0">>
T_5       == <<"5">>
T_button  == <<"b","u","t","t","o","n">>
T_key     == <<"k","e","y">>
T_up      == <<"u","p">>
T_bogus   == <<"b","o","g","u","s","e","v","e","n","t">>

K_EVT        == <<"E","V","T","_">>
K_EVT_BUTTON == <<"E","V","T","_","B","U","T","T","O","N">>
K_EVT_KEY_UP == <<"E","V","T","_","K","E","Y","_","U","P">>

\* the EVT_ attributes of the wx module that getattr(wx, evtName) can find
wxEvents == (K_EVT_BUTTON :> "wx.EVT_BUTTON") @@ (K_EVT_KEY_UP :> "wx.EVT_KEY_UP")

-----------------------------------------------------------------------------
(* Values *)

NoneV    == [tag |-> "None"]
Str(s)   == [tag |-> "str", val |-> s]
\* the object the window's attribute n holds (a control, or a bound method)
Obj(n)   == [tag |-> "obj", attr |-> n]

\* bool(v) of a None-or-str value
Truthy(v) == v.tag = "obj" \/ (v.tag = "str" /\ v.val # <<>>)

-----------------------------------------------------------------------------
(* MethodNameToEvent *)

Raised(kind, keys) ==
    [status |-> kind, evt |-> "", src |-> NoneV, id1 |-> -1, id2 |-> -1, keys |-> keys]
ReturnedNone ==
    [status |-> "none", evt |-> "", src |-> NoneV, id1 |-> -1, id2 |-> -1, keys |-> <<>>]
Returned(evt, src, id1, id2, keys) ==
    [status |-> "ok", evt |-> evt, src |-> src, id1 |-> id1, id2 |-> id2, keys |-> keys]
NoResult ==
    [status |-> "pending", evt |-> "", src |-> NoneV, id1 |-> -1, id2 |-> -1, keys |-> <<>>]

\* a check that tests the prefix before the length
NameCheck_PrefixFirst(parts, p) ==
    IF parts[1] # p THEN "ignore"
    ELSE IF Len(parts) < 3 THEN "invalid"
    ELSE "parse"

\* a check that treats a short name as one more name to ignore
NameCheck_ShortIgnored(parts, p) ==
    IF Len(parts) < 3 \/ parts[1] # p THEN "ignore" ELSE "parse"

\* the two tests made before parsing: len(parts) < 3 raises, then
\* parts[0] != prefix returns None
NameCheck(parts, p) ==
    IF Len(parts) < 3 THEN "invalid"
    ELSE IF parts[1] # p THEN "ignore"
    ELSE "parse"

\* an event suffix that always starts after the third token
EventStart_AfterThird(parts) == 4

\* N: where the event name starts (as a 1-based index into parts)
EventStart(parts) == IF IsDigit(parts[3]) THEN 4 ELSE 3

MethodNameToEvent(n, p) ==
    LET parts == Split(n) IN
    IF NameCheck(parts, p) = "invalid" THEN Raised("InvalidName", <<>>)
    ELSE IF NameCheck(parts, p) = "ignore" THEN ReturnedNone
    ELSE LET id1 == IF IsDigit(parts[2]) THEN PyInt(parts[2]) ELSE -1
             src == IF IsDigit(parts[2]) THEN NoneV ELSE Str(parts[2])
             id2 == IF IsDigit(parts[3]) THEN PyInt(parts[3]) ELSE -1
             N == EventStart(parts)
             evtName == K_EVT \o StrUpper(Join(SubSeq(parts, N, Len(parts))))
         IN IF evtName \in DOMAIN wxEvents
            THEN Returned(wxEvents[evtName], src, id1, id2, <<evtName>>)
            ELSE Raised("UnknownEvent", <<evtName>>)

-----------------------------------------------------------------------------
(* The parser called on its own *)

ParserToks == {T_on, T_online, T_Button1, T_Button, T_empty, T_1001, T_1010,
               T_5, T_button, T_key, T_up}
Prefixes == {T_on, T_online}

TokSeqs == UNION {[1..k -> ParserToks] : k \in 1..MaxToks}

EmptyWindow == <<>>
NoErr == [kind |-> "none", at |-> <<>>]

WindowIdle ==
    /\ attrs = EmptyWindow /\ xrc = {} /\ phase = "created" /\ prefix = T_on
    /\ excludes = {} /\ win0 = EmptyWindow /\ bound = <<>> /\ err = NoErr
    /\ parsed = {}

ParserIdle ==
    /\ pc = "idle" /\ name = <<>> /\ pfx = T_on /\ toks = <<>> /\ result = NoResult

InitParser == ParserIdle /\ WindowIdle

CallMethodNameToEvent ==
    /\ pc = "idle"
    /\ \E ts \in TokSeqs, p \in Prefixes :
          /\ toks' = ts
          /\ name' = Join(ts)
          /\ pfx' = p
          /\ result' = MethodNameToEvent(Join(ts), p)
    /\ pc' = "returned"
    /\ UNCHANGED windowVars

\* the caller drops the rule (or handles the exception)
DiscardResult ==
    /\ pc = "returned"
    /\ pc' = "idle" /\ name' = <<>> /\ pfx' = T_on /\ toks' = <<>> /\ result' = NoResult
    /\ UNCHANGED windowVars

NextParser == CallMethodNameToEvent \/ DiscardResult

SpecParser == InitParser /\ [][NextParser]_vars

-----------------------------------------------------------------------------
(* The window: attributes, the XRC child-control lookup, win.Bind *)

\* what an attribute can hold: a method (callable), some other object, None
AttrValues == {"method", "object", "None"}

\* callable(value)
Callable(v) == v = "method"

\* __getattr__, reached when the window has no attribute n: the XRC control of
\* that name, cached in __dict__, or AttributeError
XrcGetAttr(a, x, n) ==
    IF n \in x
    THEN [found |-> TRUE, val |-> "object", attrs |-> (n :> "object") @@ a]
    ELSE [found |-> FALSE, val |-> "None", attrs |-> a]

\* getattr(win, n)
GetAttr(a, x, n) ==
    IF n \in DOMAIN a
    THEN [found |-> TRUE, val |-> a[n], attrs |-> a]
    ELSE XrcGetAttr(a, x, n)

\* win.Bind(event, handler, source, id, id2), as the call it is
Bind(b, evt, h, src, id1, id2) ==
    Append(b, [evt |-> evt, handler |-> h, src |-> src, id1 |-> id1, id2 |-> id2])

-----------------------------------------------------------------------------
(* AutoBindEvent *)

Fail(st, kind, a) == [st EXCEPT !.err = [kind |-> kind, at |-> a]]

\* a filter that forgets the excludes
Candidate_NoExcludes(a, p, ex) == StartsWith(a, p)

\* (attr not in excludes) and attr.startswith(prefix)
Candidate(a, p, ex) == a \notin ex /\ StartsWith(a, p)

\* the last test of the loop body, and the Bind call it guards
Register(st, evt, h, src, id1, id2) ==
    IF src # NoneV \/ id1 >= 0 \/ id2 >= 0
    THEN [st EXCEPT !.bound = Bind(@, evt, h, src, id1, id2)]
    ELSE st

\* one pass of the loop body, for attribute a
BindOne(st, x, a, p, ex) ==
    IF ~Candidate(a, p, ex) THEN st
    ELSE IF ~Callable(st.attrs[a]) THEN st
    ELSE
      LET r   == MethodNameToEvent(a, p)
          st1 == [st EXCEPT !.parsed = @ \cup {a}]
      IN
      IF r.status \in {"InvalidName", "UnknownEvent"} THEN Fail(st1, r.status, a)
      \* None cannot be unpacked into event, src, id1, id2
      ELSE IF r.status = "none" THEN Fail(st1, "TypeError", a)
      ELSE IF Truthy(r.src) THEN
          LET g   == GetAttr(st1.attrs, x, r.src.val)
              st2 == [st1 EXCEPT !.attrs = g.attrs]
          IN IF ~g.found THEN Fail(st2, "AttributeError", a)
             ELSE IF g.val = "None" THEN Fail(st2, "MissingWidget", a)
             ELSE Register(st2, r.evt, a, Obj(r.src.val), r.id1, r.id2)
      ELSE Register(st1, r.evt, a, r.src, r.id1, r.id2)

RECURSIVE BindAll(_, _, _, _, _)
\* the for loop over dir(win); an exception ends it
BindAll(names, st, x, p, ex) ==
    IF names = <<>> \/ st.err.kind # "none" THEN st
    ELSE BindAll(Tail(names), BindOne(st, x, Head(names), p, ex), x, p, ex)

AutoBindEvent(a, x, p, ex) ==
    BindAll(SortedNames(DOMAIN a),
            [attrs |-> a, bound |-> <<>>, err |-> NoErr, parsed |-> {}],
            x, p, ex)

-----------------------------------------------------------------------------
(* Windows and the calls made on them *)

AttrNames == {
    Join(<<T_on, T_Button1, T_button>>),
    Join(<<T_on, T_Missing, T_button>>),
    Join(<<T_on, T_1001, T_button>>),
    Join(<<T_on, T_1001, T_1010, T_button>>),
    Join(<<T_on, T_button>>),
    Join(<<T_on, T_Button1, T_bogus>>),
    Join(<<T_online, T_Button1, T_button>>),
    Join(<<T_on, T_empty, T_button>>),
    Join(<<T_on, T_on, T_button>>),
    T_on,
    T_Button1 }

\* the attributes that hold a control, or None where the control is not set;
\* the others are methods or plain objects
ControlAttrs == {T_on, T_Button1}
ValuesOf(n) == IF n \in ControlAttrs THEN AttrValues ELSE {"method", "object"}

\* the names a caller looks up as child controls
CtrlNames == {T_Button1, T_Missing}
XrcResources == {{}, {T_Button1}}
BinderPrefixes == {T_on}

Windows ==
    {w \in UNION {[D -> AttrValues] :
                    D \in {E \in SUBSET AttrNames : Cardinality(E) <= MaxAttrs}} :
        \A n \in DOMAIN w : w[n] \in ValuesOf(n)}

\* a window as its constructor leaves it when autoBindEvt is off
Init ==
    /\ ParserIdle
    /\ attrs \in Windows
    /\ xrc \in XrcResources
    /\ phase = "created" /\ prefix = T_on /\ excludes = {} /\ win0 = EmptyWindow
    /\ bound = <<>> /\ err = NoErr /\ parsed = {}

\* AutoBindEvent(win, prefix, excludes), from the call to its return or raise
AutoBindEventCall ==
    /\ phase = "created"
    /\ \E p \in BinderPrefixes, ex \in SUBSET DOMAIN attrs :
          LET st == AutoBindEvent(attrs, xrc, p, ex) IN
          /\ prefix' = p
          /\ excludes' = ex
          /\ win0' = attrs
          /\ attrs' = st.attrs
          /\ bound' = st.bound
          /\ err' = st.err
          /\ parsed' = st.parsed
          /\ phase' = IF st.err.kind = "none" THEN "bound" ELSE "failed"
    /\ UNCHANGED xrc
    /\ UNCHANGED parserVars

\* win.<n> by a caller, for a control the window has no attribute of yet: the
\* control is returned and cached (a name XRC does not resolve raises
\* AttributeError and leaves the window as it was)
LookupControl ==
    /\ \E n \in CtrlNames \ DOMAIN attrs :
          LET g == XrcGetAttr(attrs, xrc, n) IN
          /\ g.found
          /\ attrs' = g.attrs
    /\ UNCHANGED <<xrc, phase, prefix, excludes, win0, bound, err, parsed>>
    /\ UNCHANGED parserVars

Next == AutoBindEventCall \/ LookupControl

Spec == Init /\ [][Next]_vars

-----------------------------------------------------------------------------
(* What the claims about the parser speak of, read off the tokens the name *)
(* was written from rather than off the parser's own split                 *)

NumericToks == {T_1001, T_1010, T_5}

\* the number a numeric token writes
NumberOf(t) == CASE t = T_1001 -> 1001 [] t = T_1010 -> 1010 [] t = T_5 -> 5

\* the event kind a token list names as a suffix, "" when it names none
SuffixKind(ts) ==
    IF ts \in {<<T_button>>, <<T_Button>>} THEN "wx.EVT_BUTTON"
    ELSE IF ts = <<T_key, T_up>> THEN "wx.EVT_KEY_UP"
    ELSE ""

From(ts, i) == SubSeq(ts, i, Len(ts))

Rule(r) == <<r.status, r.evt, r.src, r.id1, r.id2>>

PrefixedCall == pc = "returned" /\ toks[1] = pfx

\* C1: with prefix 'on' and a suffix naming a known event, on_<control>_<event>
\* parses to (kind, control, -1, -1), on_<n>_<event> to (kind, none, n, -1) and
\* on_<n>_<m>_<event> to (kind, none, n, m), kind being the registry entry of
\* EVT_ + the upper-cased suffix.
C1_DocumentedForms ==
    (PrefixedCall /\ pfx = T_on /\ Len(toks) >= 3) =>
        /\ (toks[2] \notin NumericToks /\ SuffixKind(From(toks, 3)) # "") =>
              Rule(result) = <<"ok", SuffixKind(From(toks, 3)), Str(toks[2]), -1, -1>>
        /\ (toks[2] \in NumericToks /\ toks[3] \notin NumericToks
                /\ SuffixKind(From(toks, 3)) # "") =>
              Rule(result) = <<"ok", SuffixKind(From(toks, 3)), NoneV,
                               NumberOf(toks[2]), -1>>
        /\ (toks[2] \in NumericToks /\ toks[3] \in NumericToks
                /\ SuffixKind(From(toks, 4)) # "") =>
              Rule(result) = <<"ok", SuffixKind(From(toks, 4)), NoneV,
                               NumberOf(toks[2]), NumberOf(toks[3])>>

\* on_1001_1010_Button was parsed to the click event over the ids 1001..1010
C1_Witness ==
    /\ pc = "returned" /\ pfx = T_on
    /\ toks = <<T_on, T_1001, T_1010, T_Button>>
    /\ result.status = "ok" /\ result.id1 = 1001 /\ result.id2 = 1010

\* C4 as claimed: a name whose first token is not the prefix is "not applicable"
\* (no rule, no error) whatever its number of tokens.
C4_Original ==
    (pc = "returned" /\ toks[1] # pfx) => result.status = "none"

\* C4 as amended: a name of at least three tokens whose first token is not the
\* prefix is "not applicable" (no rule, no error, no registry lookup); a name of
\* fewer than three tokens raises InvalidName even when its first token is not
\* the prefix.
C4_NotApplicable ==
    (pc = "returned" /\ toks[1] # pfx) =>
        /\ Len(toks) >= 3 => (result = ReturnedNone)
        /\ Len(toks) < 3 => (result.status = "InvalidName" /\ result.keys = <<>>)

\* online_Button1_button was ignored under prefix 'on'
C4_Witness ==
    /\ pc = "returned" /\ pfx = T_on
    /\ toks = <<T_online, T_Button1, T_button>>
    /\ result.status = "none"

\* C5: a prefixed name of fewer than three tokens raises InvalidName, before
\* any registry lookup, and returns no tuple.
C5_InvalidName ==
    (PrefixedCall /\ Len(toks) < 3) =>
        (result.status = "InvalidName" /\ result.keys = <<>>)

\* on_button raised InvalidName
C5_Witness ==
    /\ pc = "returned" /\ pfx = T_on
    /\ toks = <<T_on, T_button>>
    /\ result.status = "InvalidName"

\* the tokens left for the event name once the source-or-id tokens are consumed
Remaining(ts) == IF ts[3] \in NumericToks THEN From(ts, 4) ELSE From(ts, 3)

\* C6: a prefixed name of at least three tokens whose derived key is not in the
\* registry raises UnknownEvent, the empty remainder included; a tuple is
\* returned only when the key resolves, with the registry's entry as its kind.
C6_UnknownEvent ==
    (PrefixedCall /\ Len(toks) >= 3) =>
        /\ SuffixKind(Remaining(toks)) = "" => result.status = "UnknownEvent"
        /\ result.status = "ok" =>
              (SuffixKind(Remaining(toks)) # ""
                 /\ result.evt = SuffixKind(Remaining(toks)))

\* on_1001_1010 looked up the bare key EVT_ and raised UnknownEvent
C6_Witness ==
    /\ pc = "returned" /\ pfx = T_on
    /\ toks = <<T_on, T_1001, T_1010>>
    /\ result.status = "UnknownEvent" /\ result.keys = <<K_EVT>>

\* C9: a prefixed name whose second token is non-numeric consumes exactly one
\* token as source-reference whatever token 3 is: the event suffix runs from
\* token 3 on and id1 and id2 both stay -1.
C9_OneTokenSource ==
    (PrefixedCall /\ Len(toks) >= 3 /\ toks[2] \notin NumericToks) =>
        IF SuffixKind(From(toks, 3)) = ""
        THEN result.status = "UnknownEvent"
        ELSE Rule(result) = <<"ok", SuffixKind(From(toks, 3)), Str(toks[2]), -1, -1>>

-----------------------------------------------------------------------------
(* What the claims about the binder speak of *)

BinderDone == phase \in {"bound", "failed"}

\* the characters of s before its first '_'
FirstToken(s) ==
    LET cut == {i \in DOMAIN s : s[i] = "_"}
    IN IF cut = {} THEN s
       ELSE SubSeq(s, 1, (CHOOSE i \in cut : \A j \in cut : i <= j) - 1)

\* the registrations the call made for handler h
RegistrationsOf(h) == {i \in DOMAIN bound : bound[i].handler = h}

\* C2: when AutoBindEvent fails with InvalidName, UnknownEvent or MissingWidget,
\* the call has registered no handler on the window.
C2_AllOrNothing ==
    (phase = "failed" /\ err.kind \in {"InvalidName", "UnknownEvent", "MissingWidget"})
        => bound = <<>>

\* C3: a callable attribute whose first token is not the prefix is never
\* submitted for binding: no parse, no registration, no error.
C3_UnprefixedIgnored ==
    BinderDone =>
        \A a \in DOMAIN win0 :
            (Callable(win0[a]) /\ FirstToken(a) # prefix) =>
                /\ a \notin parsed
                /\ RegistrationsOf(a) = {}
                /\ err.at # a

\* the handler's rule names a source the window cannot supply: no attribute and
\* no XRC control of that name, or an attribute holding None
SourceUnusable(h) ==
    LET r == MethodNameToEvent(h, prefix) IN
    /\ r.status = "ok" /\ Truthy(r.src)
    /\ \/ r.src.val \notin DOMAIN win0 /\ r.src.val \notin xrc
       \/ r.src.val \in DOMAIN win0 /\ win0[r.src.val] = "None"

\* C7: a handler whose named source-reference is absent from the window, or
\* resolves to None, makes the binder fail with MissingWidget and no other
\* error kind, and is not registered.
C7_MissingWidget ==
    BinderDone =>
        \A h \in parsed :
            SourceUnusable(h) =>
                /\ err = [kind |-> "MissingWidget", at |-> h]
                /\ RegistrationsOf(h) = {}

\* the attribute is one the binder must leave alone
Skipped(a) == a \in excludes \/ ~Callable(win0[a])

\* the window f without its attribute n
Without(f, n) == [m \in DOMAIN f \ {n} |-> f[m]]

\* the same call on the window without attribute a binds and raises the same
SameWithout(a) ==
    LET st == AutoBindEvent(Without(win0, a), xrc, prefix, excludes)
    IN st.bound = bound /\ st.err = err

\* some other attribute's name has a as its second token, where the parser
\* looks for the source-reference
NamedAsSource(a) ==
    \E h \in DOMAIN win0 \ {a} : Len(Split(h)) >= 2 /\ Split(h)[2] = a

\* C8 as claimed: an excluded or non-callable attribute is never parsed and
\* never registered, raises nothing, and the call registers for the other
\* attributes what it would register were that attribute absent.
C8_Original ==
    BinderDone =>
        \A a \in DOMAIN win0 :
            Skipped(a) =>
                /\ a \notin parsed
                /\ RegistrationsOf(a) = {}
                /\ err.at # a
                /\ SameWithout(a)

\* C8 as amended: the same, the last part provided no other attribute names
\* that attribute as its source-reference.
C8_SkippedAttribute ==
    BinderDone =>
        \A a \in DOMAIN win0 :
            Skipped(a) =>
                /\ a \notin parsed
                /\ RegistrationsOf(a) = {}
                /\ err.at # a
                /\ ~NamedAsSource(a) => SameWithout(a)

\* the malformed on_button was excluded and on_1001_button was bound beside it
C8_Witness ==
    /\ phase = "bound"
    /\ Join(<<T_on, T_button>>) \in excludes
    /\ Callable(win0[Join(<<T_on, T_button>>)])
    /\ RegistrationsOf(Join(<<T_on, T_1001, T_button>>)) # {}

\* callable, not excluded, prefixed and parsed to a rule
Eligible(h) ==
    /\ Callable(win0[h]) /\ h \notin excludes /\ FirstToken(h) = prefix
    /\ MethodNameToEvent(h, prefix).status = "ok"

\* the rule carries neither a source reference nor a numeric id
NoTarget(r) == ~Truthy(r.src) /\ r.id1 < 0 /\ r.id2 < 0

\* C10: in a successful call each eligible handler is registered exactly once,
\* with (event-kind, handler, resolved source or none, id1, id2); only a rule
\* with neither source reference nor numeric id is skipped, the rule of
\* on__button (empty second token) included.
C10_RegisteredOnce ==
    phase = "bound" =>
        \A h \in DOMAIN win0 :
            Eligible(h) =>
                LET r == MethodNameToEvent(h, prefix) IN
                IF NoTarget(r) THEN RegistrationsOf(h) = {}
                ELSE /\ Cardinality(RegistrationsOf(h)) = 1
                     /\ \A i \in RegistrationsOf(h) :
                           bound[i] = [evt |-> r.evt, handler |-> h,
                                       src |-> IF Truthy(r.src) THEN Obj(r.src.val)
                                               ELSE NoneV,
                                       id1 |-> r.id1, id2 |-> r.id2]

====
